---- MODULE Spec2Model ----
(***************************************************************************)
(* Vector-store contract, document tracker and search of llm-rag-chatbot.  *)
(*                                                                         *)
(* Similarities, distances and thresholds are fixed-point numbers in       *)
(* tenths: 10 stands for 1.0, 5 for 0.5, -6 for -0.6.                      *)
(***************************************************************************)
EXTENDS Integers, Sequences, FiniteSets, Bags, TLC

(***************************************************************************)
(* Bounds of the model and the input sets the operations draw from.        *)
(***************************************************************************)
MaxChunks == 2
MaxStored == 2
MaxTopK == 2

Backends == {"chroma", "faiss", "milvus", "pinecone", "pgvector", "qdrant", "weaviate"}
Docs == {"d1", "d2"}
Contents == {"c1", "c2"}
Queries == {"q1", "q2"}
Procs == {1, 2}

\* document_id = None or "" (falsy in Python)
NoDoc == ""
\* the literal stored in place of a falsy document_id
UNKNOWN == "unknown"
\* the value of a metadata key that is not in the mapping
ABSENT == "<absent>"
DocKeys == Docs \cup {UNKNOWN}
DocArgs == Docs \cup {NoDoc}
\* Python's order on the identifiers (sorted(), ORDER BY)
DocOrder == <<"d1", "d2", "unknown">>

\* config.SIMILARITY_THRESHOLD, default "0.5"
SIMILARITY_THRESHOLD == 5
\* limit=10000 of WeaviateVectorStore.delete_by_document_id
WeaviateFetchLimit == 10000

Min(a, b) == IF a <= b THEN a ELSE b
Max(a, b) == IF a >= b THEN a ELSE b
Take(s, n) == SubSeq(s, 1, Min(n, Len(s)))
Range(s) == {s[i] : i \in DOMAIN s}
IsPrefix(p, s) == Len(p) <= Len(s) /\ SubSeq(s, 1, Len(p)) = p

(***************************************************************************)
(* DocumentTracker.  The file is a record: whether it exists and its text, *)
(* the text being the sequence of JSON tokens "[", id, ..., "]".           *)
(***************************************************************************)
NoFile == [exists |-> FALSE, text |-> <<>>]

\* sorted(S)
Sorted(S) == SelectSeq(DocOrder, LAMBDA d : d \in S)

\* json.dumps(list)
JsonDumps(ids) == <<"[">> \o ids \o <<"]">>

\* json.loads succeeds and yields a list
JsonIsList(text) ==
    /\ Len(text) >= 2
    /\ text[1] = "["
    /\ text[Len(text)] = "]"
    /\ \A i \in 2..(Len(text) - 1) : text[i] \notin {"[", "]"}

\* json.loads(text) for a text that JsonIsList
JsonLoads(text) == SubSeq(text, 2, Len(text) - 1)

\* bytes that are not UTF-8, written as one token
BadBytes == "\\xff"

\* Path.read_text(encoding="utf-8") raises UnicodeDecodeError
Undecodable(file) == file.exists /\ BadBytes \in Range(file.text)

Tracker_read(file) ==
    IF ~file.exists THEN {}
    ELSE IF JsonIsList(file.text) THEN Range(JsonLoads(file.text))
    ELSE {}

Tracker_write(ids) == [exists |-> TRUE, text |-> JsonDumps(Sorted(ids))]

Tracker_add_NoPersist(file, document_id) == file

\* add without the test for an identifier already present, appending
Tracker_add_NoCheck(file, document_id) ==
    [exists |-> TRUE,
     text |-> JsonDumps((IF file.exists /\ JsonIsList(file.text) THEN JsonLoads(file.text) ELSE <<>>)
                        \o <<document_id>>)]

Tracker_add(file, document_id) ==
    IF document_id = NoDoc THEN file
    ELSE LET ids == Tracker_read(file)
         IN  IF document_id \in ids THEN file
             ELSE Tracker_write(ids \cup {document_id})

Tracker_remove_NoPersist(file, document_id) == file

Tracker_remove(file, document_id) ==
    IF document_id = NoDoc THEN file
    ELSE LET ids == Tracker_read(file)
         IN  IF document_id \notin ids THEN file
             ELSE Tracker_write(ids \ {document_id})

Tracker_list(file) == Sorted(Tracker_read(file))

\* a constructor that starts from an empty registry
DocumentTracker__init__Empties(file) == NoFile

\* DocumentTracker(path): creates the parent directory, leaves the file
DocumentTracker__init__(file) == file

(***************************************************************************)
(* The backends' stored objects.  An index is a bag of objects             *)
(* [id, doc, content]: doc is the stored document_id, content the chunk's  *)
(* text.  Chroma's ids are computed from the chunk (position and content   *)
(* hash); every other backend draws a new random identifier per object     *)
(* (uuid4, gen_random_uuid), written <<>> here, and the bag counts the     *)
(* objects that differ in nothing else.                                    *)
(***************************************************************************)
FreshId == <<>>

\* hash(c.content) % 10**8
ContentHash(c) == IF c = "c1" THEN 1 ELSE 2

\* document_id or "unknown"
DocLabel(document_id) == IF document_id = NoDoc THEN UNKNOWN ELSE document_id

Object(id, document_id, content) ==
    [id |-> id, doc |-> DocLabel(document_id), content |-> content]

\* A chunk list is written as a list of contents repeated a number of times
\* (Python's items * times): its length and its i-th content
ChunkList(items, times) == [items |-> items, times |-> times]
LenOf(chunks) == Len(chunks.items) * chunks.times
At(chunks, i) == chunks.items[((i - 1) % Len(chunks.items)) + 1]

\* the objects a backend builds from the chunk list, one per chunk
FreshObjects(chunks, document_id) ==
    LET obj(i) == Object(FreshId, document_id, chunks.items[i])
        S == {obj(i) : i \in DOMAIN chunks.items}
    IN  [e \in S |-> Cardinality({i \in DOMAIN chunks.items : obj(i) = e}) * chunks.times]

\* ids = [f"chunk_{i}_{hash(c.content) % 10**8}" for i, c in enumerate(chunks)]
ChromaObjects(chunks, document_id) ==
    {Object(<<i - 1, ContentHash(At(chunks, i))>>, document_id, At(chunks, i)) :
        i \in 1..LenOf(chunks)}

Matching(B, document_id) == {e \in BagToSet(B) : e.doc = document_id}

\* B without the objects whose document_id is the given one
Without(B, document_id) ==
    LET S == BagToSet(B) \ Matching(B, document_id)
    IN  [e \in S |-> B[e]]

Stored(B) == BagCardinality(B)

(***************************************************************************)
(* What a call leaves behind: the index, FAISS's metadata map, the tracker *)
(* file, the value returned (<<v>>, or <<>> for None or no return), whether *)
(* it raised, and whether it wrote to the index or its persisted files.     *)
(***************************************************************************)
Outcome(idx, meta, file, ret, raised, wrote) ==
    [index |-> idx, metadata |-> meta, tracker |-> file,
     ret |-> ret, raised |-> raised, wrote |-> wrote]

\* if not chunks: return 0
ReturnZero(idx, meta, file) == Outcome(idx, meta, file, <<0>>, FALSE, FALSE)

\* the write of the new objects, then _track_add and return len(...)
StoreAndTrack(idx, meta, file, chunks, document_id) ==
    Outcome(idx (+) FreshObjects(chunks, document_id), meta,
            Tracker_add(file, document_id), <<LenOf(chunks)>>, FALSE, TRUE)

\* collection.add leaves an object whose id is already in the collection as it
\* is, or raises for it, depending on the chromadb release
ChromaDuplicatePolicies == {"ignore", "raise"}

ChromaAddChunks_TrackEmpty(idx, meta, file, chunks, document_id, onDuplicate) ==
    LET new == ChromaObjects(chunks, document_id)
        dup == {e \in new : e.id \in {x.id : x \in BagToSet(idx)}}
    IN  IF dup # {} /\ onDuplicate = "raise"
        THEN Outcome(idx, meta, file, <<>>, TRUE, FALSE)
        ELSE Outcome(idx (+) SetToBag(new \ dup), meta,
                     Tracker_add(file, document_id), <<LenOf(chunks)>>, FALSE, TRUE)

ChromaAddChunks(idx, meta, file, chunks, document_id, onDuplicate) ==
    IF LenOf(chunks) = 0 THEN ReturnZero(idx, meta, file)
    ELSE LET new == ChromaObjects(chunks, document_id)
             dup == {e \in new : e.id \in {x.id : x \in BagToSet(idx)}}
         IN  IF dup # {} /\ onDuplicate = "raise"
             THEN Outcome(idx, meta, file, <<>>, TRUE, FALSE)
             ELSE Outcome(idx (+) SetToBag(new \ dup), meta,
                          Tracker_add(file, document_id), <<LenOf(chunks)>>, FALSE, TRUE)

FaissAddChunks(idx, meta, file, chunks, document_id) ==
    IF LenOf(chunks) = 0 THEN ReturnZero(idx, meta, file)
    ELSE LET new == FreshObjects(chunks, document_id)
         IN  Outcome(idx (+) new, meta (+) new,
                     Tracker_add(file, document_id), <<LenOf(chunks)>>, FALSE, TRUE)

MilvusAddChunks(idx, meta, file, chunks, document_id) ==
    IF LenOf(chunks) = 0 THEN ReturnZero(idx, meta, file)
    ELSE StoreAndTrack(idx, meta, file, chunks, document_id)

PineconeAddChunks(idx, meta, file, chunks, document_id) ==
    IF LenOf(chunks) = 0 THEN ReturnZero(idx, meta, file)
    ELSE StoreAndTrack(idx, meta, file, chunks, document_id)

PgvectorAddChunks(idx, meta, file, chunks, document_id) ==
    IF LenOf(chunks) = 0 THEN ReturnZero(idx, meta, file)
    ELSE StoreAndTrack(idx, meta, file, chunks, document_id)

QdrantAddChunks(idx, meta, file, chunks, document_id) ==
    IF LenOf(chunks) = 0 THEN ReturnZero(idx, meta, file)
    ELSE StoreAndTrack(idx, meta, file, chunks, document_id)

WeaviateAddChunks(idx, meta, file, chunks, document_id) ==
    IF LenOf(chunks) = 0 THEN ReturnZero(idx, meta, file)
    ELSE StoreAndTrack(idx, meta, file, chunks, document_id)

\* VectorStore.add_chunks of the configured provider
add_chunks(b, idx, meta, file, chunks, document_id, onDuplicate) ==
    CASE b = "chroma" -> ChromaAddChunks(idx, meta, file, chunks, document_id, onDuplicate)
      [] b = "faiss" -> FaissAddChunks(idx, meta, file, chunks, document_id)
      [] b = "milvus" -> MilvusAddChunks(idx, meta, file, chunks, document_id)
      [] b = "pinecone" -> PineconeAddChunks(idx, meta, file, chunks, document_id)
      [] b = "pgvector" -> PgvectorAddChunks(idx, meta, file, chunks, document_id)
      [] b = "qdrant" -> QdrantAddChunks(idx, meta, file, chunks, document_id)
      [] b = "weaviate" -> WeaviateAddChunks(idx, meta, file, chunks, document_id)

(***************************************************************************)
(* delete_by_document_id                                                   *)
(***************************************************************************)
\* the delete of every object whose document_id matches, then _track_remove
FilterDelete(idx, meta, file, document_id) ==
    Outcome(Without(idx, document_id), meta, Tracker_remove(file, document_id),
            <<>>, FALSE, TRUE)

ChromaDelete(idx, meta, file, document_id) ==
    IF Matching(idx, document_id) # {}
    THEN FilterDelete(idx, meta, file, document_id)
    ELSE Outcome(idx, meta, Tracker_remove(file, document_id), <<>>, FALSE, FALSE)

FaissDelete(idx, meta, file, document_id) ==
    LET ids_to_remove == Matching(meta, document_id)
    IN  IF ids_to_remove # {}
        THEN Outcome([e \in BagToSet(idx) \ ids_to_remove |-> idx[e]],
                     Without(meta, document_id),
                     Tracker_remove(file, document_id), <<>>, FALSE, TRUE)
        ELSE Outcome(idx, meta, Tracker_remove(file, document_id), <<>>, FALSE, FALSE)

MilvusDelete(idx, meta, file, document_id) == FilterDelete(idx, meta, file, document_id)

PineconeDelete(idx, meta, file, document_id) == FilterDelete(idx, meta, file, document_id)

PgvectorDelete(idx, meta, file, document_id) == FilterDelete(idx, meta, file, document_id)

QdrantDelete(idx, meta, file, document_id) == FilterDelete(idx, meta, file, document_id)

\* B with k copies of e taken out
BagRemove(B, e, k) ==
    IF k >= B[e] THEN [x \in BagToSet(B) \ {e} |-> B[x]]
    ELSE [B EXCEPT ![e] = @ - k]

RECURSIVE DeleteFetched(_, _, _)
\* B after collection.data.delete_by_id of n of its objects, taken among the
\* objects of the kinds in S
DeleteFetched(B, S, n) ==
    IF n = 0 \/ S = {} THEN B
    ELSE LET e == CHOOSE x \in S : TRUE
             k == Min(n, B[e])
         IN  DeleteFetched(BagRemove(B, e, k), S \ {e}, n - k)

\* fetch_objects(filters=..., limit=10000), delete_by_id of each object fetched
WeaviateDelete(idx, meta, file, document_id) ==
    LET S == Matching(idx, document_id)
    IN  Outcome(DeleteFetched(idx, S, WeaviateFetchLimit), meta,
                Tracker_remove(file, document_id), <<>>, FALSE, S # {})

\* VectorStore.delete_by_document_id of the configured provider
delete_by_document_id(b, idx, meta, file, document_id) ==
    CASE b = "chroma" -> ChromaDelete(idx, meta, file, document_id)
      [] b = "faiss" -> FaissDelete(idx, meta, file, document_id)
      [] b = "milvus" -> MilvusDelete(idx, meta, file, document_id)
      [] b = "pinecone" -> PineconeDelete(idx, meta, file, document_id)
      [] b = "pgvector" -> PgvectorDelete(idx, meta, file, document_id)
      [] b = "qdrant" -> QdrantDelete(idx, meta, file, document_id)
      [] b = "weaviate" -> WeaviateDelete(idx, meta, file, document_id)

\* VectorStore.list_documents; pgvector overrides it with
\* SELECT DISTINCT document_id ... ORDER BY document_id
list_documents(b, idx, file) ==
    IF b = "pgvector" THEN Sorted({e.doc : e \in BagToSet(idx)})
    ELSE Tracker_list(file)

(***************************************************************************)
(* search.  Cosine(q, c) is the cosine of the angle between the embeddings *)
(* of query q and content c; every backend is configured for the cosine    *)
(* metric and returns its nearest objects closest first.                   *)
(***************************************************************************)
Cosine(q, c) ==
    CASE q = "q1" /\ c = "c1" -> 10
      [] q = "q1" /\ c = "c2" -> 4
      [] q = "q2" /\ c = "c1" -> 0
      [] OTHER -> -6

RECURSIVE Nearest(_, _, _)
\* the n objects of B nearest to query q, closest first
Nearest(B, q, n) ==
    IF n <= 0 \/ BagToSet(B) = {} THEN <<>>
    ELSE LET S == BagToSet(B)
             e == CHOOSE x \in S : \A y \in S : Cosine(q, x.content) >= Cosine(q, y.content)
         IN  <<e>> \o Nearest(BagRemove(B, e, 1), q, n - 1)

\* the native value a backend reports for an object: a cosine distance
\* (chroma "hnsw:space": "cosine", pgvector <=>, weaviate distance=True) or
\* a cosine score (faiss IndexFlatIP over normalized vectors, qdrant
\* Distance.COSINE, pinecone metric cosine, milvus metric_type COSINE)
NativeValue(b, cos) == IF b \in {"chroma", "pgvector", "weaviate"} THEN 10 - cos ELSE cos

\* similarity = 1 - (dist / 2.0) if dist <= 2 else 0
ChromaSimilarity(dist) == IF dist <= 20 THEN 10 - (dist \div 2) ELSE 0

\* similarity = 1.0 - (dist_f / 2.0) if dist_f <= 2 else 0
PgvectorSimilarity(dist) == IF dist <= 20 THEN 10 - (dist \div 2) ELSE 0

\* similarity = 1.0 - float(dist)
WeaviateSimilarity(dist) == 10 - dist

\* similarity = 1 - hit.distance
MilvusSimilarity(distance) == 10 - distance

\* if score < threshold: continue
FaissSimilarity(score) == score

\* score = res.score or 0.0
QdrantSimilarity(score) == score

\* score = match.get("score") or 0.0
PineconeSimilarity(score) == score

\* the value search compares against the threshold
Similarity(b, native) ==
    CASE b = "chroma" -> ChromaSimilarity(native)
      [] b = "faiss" -> FaissSimilarity(native)
      [] b = "milvus" -> MilvusSimilarity(native)
      [] b = "pinecone" -> PineconeSimilarity(native)
      [] b = "pgvector" -> PgvectorSimilarity(native)
      [] b = "qdrant" -> QdrantSimilarity(native)
      [] b = "weaviate" -> WeaviateSimilarity(native)

\* SearchResult.distance
ResultDistance(b, native) ==
    IF b \in {"faiss", "qdrant", "pinecone"} THEN 10 - native ELSE native

\* SearchResult.metadata.get("document_id"): milvus and pgvector keep the
\* document_id in a column of its own and return the metadata column alone;
\* faiss looks the object up in its metadata map
ResultDocumentId(b, meta, e) ==
    CASE b \in {"milvus", "pgvector"} -> ABSENT
      [] b = "faiss" -> IF e \in BagToSet(meta) THEN e.doc ELSE ABSENT
      [] OTHER -> e.doc

\* SearchResult.content
ResultContent(b, meta, e) ==
    IF b = "faiss" /\ e \notin BagToSet(meta) THEN "" ELSE e.content

\* one candidate of a search: the SearchResult built for it, with the
\* similarity that was computed for it
Hit(b, meta, q, e) ==
    LET native == NativeValue(b, Cosine(q, e.content))
    IN  [content |-> ResultContent(b, meta, e),
         document_id |-> ResultDocumentId(b, meta, e),
         distance |-> ResultDistance(b, native),
         similarity |-> Similarity(b, native)]

Hits(b, meta, q, cands) == [i \in DOMAIN cands |-> Hit(b, meta, q, cands[i])]

\* similarity_threshold if similarity_threshold is not None else config.SIMILARITY_THRESHOLD
Threshold(thr) == IF thr # <<>> THEN thr[1] ELSE SIMILARITY_THRESHOLD

\* for each hit: if similarity < threshold: continue; results.append(...)
ThresholdFilter(hits, threshold) == SelectSeq(hits, LAMBDA h : ~(h.similarity < threshold))

Found(results, hits) == [results |-> results, hits |-> hits]

\* fetch_k = max(top_k * 2, 20) if similarity_threshold else top_k
ChromaFetchK(top_k, thr) == IF thr # <<>> /\ thr[1] # 0 THEN Max(top_k * 2, 20) ELSE top_k

ChromaSearch_NoFallback(idx, meta, q, top_k, thr) ==
    LET hits == Hits("chroma", meta, q, Nearest(idx, q, ChromaFetchK(top_k, thr)))
    IN  Found(Take(ThresholdFilter(hits, Threshold(thr)), Max(top_k, 1)), hits)

ChromaSearch(idx, meta, q, top_k, thr) ==
    LET hits == Hits("chroma", meta, q, Nearest(idx, q, ChromaFetchK(top_k, thr)))
        kept == Take(ThresholdFilter(hits, Threshold(thr)), Max(top_k, 1))
    IN  IF kept = <<>> /\ hits # <<>> THEN Found(Take(hits, top_k), hits)
        ELSE Found(kept, hits)

FaissSearch(idx, meta, q, top_k, thr) ==
    IF Stored(idx) = 0 THEN Found(<<>>, <<>>)
    ELSE LET hits == Hits("faiss", meta, q, Nearest(idx, q, top_k))
         IN  Found(ThresholdFilter(hits, Threshold(thr)), hits)

MilvusSearch(idx, meta, q, top_k, thr) ==
    LET hits == Hits("milvus", meta, q, Nearest(idx, q, top_k))
    IN  Found(ThresholdFilter(hits, Threshold(thr)), hits)

PineconeSearch(idx, meta, q, top_k, thr) ==
    LET hits == Hits("pinecone", meta, q, Nearest(idx, q, top_k))
    IN  Found(ThresholdFilter(hits, Threshold(thr)), hits)

PgvectorSearch(idx, meta, q, top_k, thr) ==
    LET hits == Hits("pgvector", meta, q, Nearest(idx, q, top_k))
    IN  Found(ThresholdFilter(hits, Threshold(thr)), hits)

QdrantSearch(idx, meta, q, top_k, thr) ==
    LET hits == Hits("qdrant", meta, q, Nearest(idx, q, top_k))
    IN  Found(ThresholdFilter(hits, Threshold(thr)), hits)

WeaviateSearch(idx, meta, q, top_k, thr) ==
    LET hits == Hits("weaviate", meta, q, Nearest(idx, q, top_k))
    IN  Found(ThresholdFilter(hits, Threshold(thr)), hits)

\* VectorStore.search of the configured provider
search(b, idx, meta, q, top_k, thr) ==
    CASE b = "chroma" -> ChromaSearch(idx, meta, q, top_k, thr)
      [] b = "faiss" -> FaissSearch(idx, meta, q, top_k, thr)
      [] b = "milvus" -> MilvusSearch(idx, meta, q, top_k, thr)
      [] b = "pinecone" -> PineconeSearch(idx, meta, q, top_k, thr)
      [] b = "pgvector" -> PgvectorSearch(idx, meta, q, top_k, thr)
      [] b = "qdrant" -> QdrantSearch(idx, meta, q, top_k, thr)
      [] b = "weaviate" -> WeaviateSearch(idx, meta, q, top_k, thr)

(***************************************************************************)
(* State.                                                                  *)
(***************************************************************************)
VARIABLES
    backend,       \* config.VECTOR_PROVIDER: the provider create_vector_store built
    index,         \* the objects the backend holds
    metadata,      \* FaissVectorStore._metadata
    trackerFile,   \* the file at DocumentTracker.path
    last,          \* the last call of the store: its arguments and what it returned
    addCompleted,  \* ids with a completed add_chunks and no completed delete since
    addStored,     \* the same, counting only add_chunks of a non-empty chunk list
    deletedDocs,   \* ids whose delete returned, with no add_chunks call since
    pc,            \* where each process is in DocumentTracker.add / remove
    call,          \* the tracker call each process is making
    ids,           \* the local variable ids of each process
    crashed,       \* the process stopped in the middle of a call
    before,        \* the registry a read gave when the interrupted call began
    metaFile,      \* the file at FaissVectorStore.metadata_path
    indexFile,     \* the file at FaissVectorStore.index_path
    faissLocal,    \* the local variables of each thread inside a FAISS call
    faissBefore,   \* the objects the FAISS index held when the threads' calls began
    loop,          \* the request whose handler the event loop's thread runs, 0 for none
    chain,         \* the last call of the RAG chain: what it was given and what it gave
    factory,       \* the configuration and what create_vector_store did with it
    tracker,       \* the last call of a DocumentTracker on trackerFile, one call at a time
    embed,         \* the embedding settings, lru_cache's cache and what each thread holds
    prior,         \* what a store call that may fail found, and where it failed
    qdrant,        \* the Qdrant collection and what the last constructor run did to it
    chunker        \* a call of TextChunker._chunk_text: its arguments, locals and position

procVars == <<pc, call, ids, crashed, before>>
faissVars == <<metaFile, indexFile, faissLocal, faissBefore>>
storeVars == <<backend, index, metadata, trackerFile, last, addCompleted, addStored, deletedDocs>>
moreVars == <<embed, prior, qdrant, chunker>>
restVars == <<loop, chain, factory, tracker, moreVars>>
extraVars == <<faissVars, restVars>>
vars == <<backend, index, metadata, trackerFile, last, addCompleted, addStored, deletedDocs,
          pc, call, ids, crashed, before, extraVars>>

NoCall == [op |-> "none", doc |-> NoDoc]
NoLast == [op |-> "none", doc |-> NoDoc, n |-> 0, top_k |-> 0, threshold |-> 0, ret |-> <<>>,
           raised |-> FALSE, wrote |-> FALSE, results |-> <<>>, hits |-> <<>>]

ProcsOff ==
    /\ pc = [p \in Procs |-> "off"]
    /\ call = [p \in Procs |-> NoCall]
    /\ ids = [p \in Procs |-> {}]
    /\ crashed = FALSE
    /\ before = {}

NoLocal == [ids |-> {}, dump |-> EmptyBag]

FaissOff ==
    /\ metaFile = EmptyBag
    /\ indexFile = EmptyBag
    /\ faissLocal = [p \in Procs |-> NoLocal]
    /\ faissBefore = {}

NoChain ==
    [phase |-> "idle", op |-> "none", cloud |-> FALSE, results |-> <<>>, gen |-> <<>>,
     generated |-> 0,
     raised |-> FALSE, answer |-> <<>>, sources |-> <<>>, context_chunks |-> <<>>,
     context |-> <<>>, yielded |-> <<>>]

NoConfig == [provider |-> <<>>, pinecone_key |-> FALSE, pg_conn |-> FALSE, db_url |-> FALSE]
NoFactory ==
    [phase |-> "idle", cfg |-> NoConfig, trackers |-> 0, constructed |-> <<>>,
     raised |-> <<>>, ret |-> <<>>]

\* op, doc, fileBefore, ret: the call, the file it found and what it returned;
\* registered: the ids added and not removed since; listed, current: what the
\* last list() returned, and whether no add or remove came after it; fresh:
\* the instance was constructed and not yet called; prev, prevCurrent,
\* restarted: listed, current and fresh as the call found them
NoTracker ==
    [op |-> "none", doc |-> NoDoc, fileBefore |-> NoFile, ret |-> <<>>,
     registered |-> {}, listed |-> <<>>, current |-> FALSE, fresh |-> TRUE,
     prev |-> <<>>, prevCurrent |-> FALSE, restarted |-> FALSE, raised |-> FALSE]

NoEmbed ==
    [cfg |-> [provider |-> "sentence_transformers", key |-> FALSE], cache |-> <<>>,
     built |-> <<>>, fn |-> [p \in Procs |-> 0], got |-> [p \in Procs |-> 0],
     calls |-> [p \in Procs |-> 0]]

NoPrior == [tracker |-> NoFile, point |-> "none"]

\* exists: the collection is on the server; built: a QdrantVectorStore has
\* been constructed; check: how get_collection ended in the last constructor
\* run; existed, kept: whether the collection was there when that run began,
\* and whether it then left the points as they were
NoQdrant == [exists |-> FALSE, built |-> FALSE, check |-> "none", existed |-> FALSE, kept |-> TRUE]

NoChunker == [text |-> <<>>, chunk_size |-> 1, chunk_overlap |-> 0, start |-> 0,
              chunks |-> <<>>, pc |-> "idle"]

MoreOff == embed = NoEmbed /\ prior = NoPrior /\ qdrant = NoQdrant /\ chunker = NoChunker
FactoryOff == factory = NoFactory
TrackerOff == tracker = NoTracker
RestOff == loop = 0 /\ chain = NoChain /\ FactoryOff /\ TrackerOff /\ MoreOff

ExtraOff == FaissOff /\ RestOff

StoreInit ==
    /\ backend \in Backends
    /\ index = EmptyBag
    /\ metadata = EmptyBag
    /\ trackerFile = NoFile
    /\ last = NoLast
    /\ addCompleted = {}
    /\ addStored = {}
    /\ deletedDocs = {}

Init == StoreInit /\ ProcsOff /\ ExtraOff

(***************************************************************************)
(* The calls of the store, one at a time, as the API's handlers make them. *)
(***************************************************************************)
ChunkLists == {ChunkList(items, 1) : items \in UNION {[1..n -> Contents] : n \in 0..MaxChunks}}

\* a chunk list longer than the limit of Weaviate's fetch_objects
BulkList == ChunkList(<<"c1">>, WeaviateFetchLimit + 1)

ChunkListsFor(b) == IF b = "weaviate" THEN ChunkLists \cup {BulkList} ELSE ChunkLists

ThresholdArgs == {<<>>, <<0>>, <<8>>}

AddChunks(chunks, document_id, onDuplicate) ==
    /\ Stored(index) + LenOf(chunks) <= MaxStored \/ Stored(index) = 0
    /\ LET out == add_chunks(backend, index, metadata, trackerFile, chunks, document_id, onDuplicate)
           done == ~out.raised /\ document_id \in Docs
       IN  /\ index' = out.index
           /\ metadata' = out.metadata
           /\ trackerFile' = out.tracker
           /\ last' = [NoLast EXCEPT !.op = "add_chunks", !.doc = document_id,
                                     !.n = LenOf(chunks), !.ret = out.ret,
                                     !.raised = out.raised, !.wrote = out.wrote]
           /\ addCompleted' = IF done THEN addCompleted \cup {document_id} ELSE addCompleted
           /\ addStored' = IF done /\ LenOf(chunks) > 0 THEN addStored \cup {document_id} ELSE addStored
           /\ deletedDocs' = deletedDocs \ {document_id}
    /\ UNCHANGED <<backend, procVars>>
    /\ UNCHANGED extraVars

DeleteByDocumentId(document_id) ==
    /\ LET out == delete_by_document_id(backend, index, metadata, trackerFile, document_id)
       IN  /\ index' = out.index
           /\ metadata' = out.metadata
           /\ trackerFile' = out.tracker
           /\ last' = [NoLast EXCEPT !.op = "delete_by_document_id", !.doc = document_id,
                                     !.ret = out.ret, !.raised = out.raised,
                                     !.wrote = out.wrote]
    /\ addCompleted' = addCompleted \ {document_id}
    /\ addStored' = addStored \ {document_id}
    /\ deletedDocs' = deletedDocs \cup ({document_id} \cap Docs)
    /\ UNCHANGED <<backend, procVars>>
    /\ UNCHANGED extraVars

Search(q, top_k, thr) ==
    /\ LET out == search(backend, index, metadata, q, top_k, thr)
       IN  last' = [NoLast EXCEPT !.op = "search", !.top_k = top_k,
                                  !.threshold = Threshold(thr),
                                  !.results = out.results, !.hits = out.hits]
    /\ UNCHANGED <<backend, index, metadata, trackerFile, addCompleted, addStored,
                   deletedDocs, procVars>>
    /\ UNCHANGED extraVars

Next ==
    \/ \E chunks \in ChunkListsFor(backend), d \in DocArgs,
          dup \in (IF backend = "chroma" THEN ChromaDuplicatePolicies ELSE {"ignore"}) :
            AddChunks(chunks, d, dup)
    \/ \E d \in DocKeys : DeleteByDocumentId(d)
    \/ \E q \in Queries, k \in 1..MaxTopK, thr \in ThresholdArgs : Search(q, k, thr)

Spec == Init /\ [][Next]_vars

(***************************************************************************)
(* DocumentTracker.add and .remove step by step, for the processes that    *)
(* share the tracker file.  pc is the position in the call: "read" before  *)
(* _read, "open" before write_text opens the file (which truncates it),    *)
(* "write" before the text is written, "done" after the return.  ids is    *)
(* the local variable ids; before is the registry when the calls began.    *)
(***************************************************************************)
TrackerOps == {"add", "remove"}
TrackerArgs == DocKeys \cup {NoDoc}

StoreIdle ==
    /\ backend = "faiss"
    /\ index = EmptyBag
    /\ metadata = EmptyBag
    /\ last = NoLast
    /\ addCompleted = {}
    /\ addStored = {}
    /\ deletedDocs = {}

TrackerFiles == {NoFile} \cup {Tracker_write(S) : S \in SUBSET Docs}

\* the registry once the mutation of call c is applied to registry S
Effect(c, S) == IF c.op = "add" THEN S \cup {c.doc} ELSE S \ {c.doc}

\* a file's text after data is written at offset 0 over it
Overlay(old, data) == data \o SubSeq(old, Len(data) + 1, Len(old))

StrictPrefixes(data) == {SubSeq(data, 1, n) : n \in 0..(Len(data) - 1)}

\* add(document_id) or remove(document_id) is entered; a falsy id returns
TrackerCall(p, op, document_id) ==
    /\ pc[p] = "idle"
    /\ call' = [call EXCEPT ![p] = [op |-> op, doc |-> document_id]]
    /\ pc' = [pc EXCEPT ![p] = IF document_id = NoDoc THEN "done" ELSE "read"]
    /\ UNCHANGED <<backend, index, metadata, trackerFile, last, addCompleted, addStored,
                   deletedDocs, ids, crashed, before>>
    /\ UNCHANGED extraVars

\* ids = self._read(), the membership test, and ids.add / ids.remove
TrackerRead(p) ==
    /\ pc[p] = "read"
    /\ LET read == Tracker_read(trackerFile)
           noop == IF call[p].op = "add" THEN call[p].doc \in read
                                         ELSE call[p].doc \notin read
       IN  /\ ids' = [ids EXCEPT ![p] = IF noop THEN read ELSE Effect(call[p], read)]
           /\ pc' = [pc EXCEPT ![p] = IF noop THEN "done" ELSE "open"]
    /\ UNCHANGED <<backend, index, metadata, trackerFile, last, addCompleted, addStored,
                   deletedDocs, call, crashed, before>>
    /\ UNCHANGED extraVars

\* write_text opens the file for writing: the file exists and is empty
TrackerOpen(p) ==
    /\ pc[p] = "open"
    /\ trackerFile' = [exists |-> TRUE, text |-> <<>>]
    /\ pc' = [pc EXCEPT ![p] = "write"]
    /\ UNCHANGED <<backend, index, metadata, last, addCompleted, addStored,
                   deletedDocs, call, ids, crashed, before>>
    /\ UNCHANGED extraVars

\* write_text writes json.dumps(sorted(ids)) from the start of the file
TrackerWrite(p) ==
    /\ pc[p] = "write"
    /\ trackerFile' = [exists |-> TRUE,
                       text |-> Overlay(trackerFile.text, Tracker_write(ids[p]).text)]
    /\ pc' = [pc EXCEPT ![p] = "done"]
    /\ UNCHANGED <<backend, index, metadata, last, addCompleted, addStored,
                   deletedDocs, call, ids, crashed, before>>
    /\ UNCHANGED extraVars

\* the call has returned; the process is free for the next one
TrackerReturn(p) ==
    /\ pc[p] = "done"
    /\ pc' = [pc EXCEPT ![p] = "idle"]
    /\ call' = [call EXCEPT ![p] = NoCall]
    /\ ids' = [ids EXCEPT ![p] = {}]
    /\ before' = Tracker_read(trackerFile)
    /\ UNCHANGED <<backend, index, metadata, trackerFile, last, addCompleted, addStored,
                   deletedDocs, crashed>>
    /\ UNCHANGED extraVars

\* the process stops inside _write: before the file is opened, after it is
\* opened with only a part of the text written, or after the whole text
TrackerCrash(p) ==
    /\ pc[p] \in {"open", "write"}
    /\ ~crashed
    /\ \/ UNCHANGED trackerFile
       \/ /\ pc[p] = "write"
          /\ \E part \in StrictPrefixes(Tracker_write(ids[p]).text) :
                trackerFile' = [exists |-> TRUE, text |-> Overlay(trackerFile.text, part)]
       \/ /\ pc[p] = "write"
          /\ trackerFile' = [exists |-> TRUE,
                             text |-> Overlay(trackerFile.text, Tracker_write(ids[p]).text)]
    /\ crashed' = TRUE
    /\ pc' = [pc EXCEPT ![p] = "stopped"]
    /\ UNCHANGED <<backend, index, metadata, last, addCompleted, addStored,
                   deletedDocs, call, ids, before>>
    /\ UNCHANGED extraVars

\* one process mutating the tracker, call after call, which may stop in _write
InitCrash ==
    /\ StoreIdle
    /\ ExtraOff
    /\ trackerFile \in TrackerFiles
    /\ pc = [p \in Procs |-> IF p = 1 THEN "idle" ELSE "off"]
    /\ call = [p \in Procs |-> NoCall]
    /\ ids = [p \in Procs |-> {}]
    /\ crashed = FALSE
    /\ before = Tracker_read(trackerFile)

NextCrash ==
    \/ \E op \in TrackerOps, d \in TrackerArgs : TrackerCall(1, op, d)
    \/ TrackerRead(1)
    \/ TrackerOpen(1)
    \/ TrackerWrite(1)
    \/ TrackerReturn(1)
    \/ TrackerCrash(1)

SpecCrash == InitCrash /\ [][NextCrash]_vars

\* two processes, each making one call on the shared tracker file
InitConc ==
    /\ StoreIdle
    /\ ExtraOff
    /\ trackerFile \in TrackerFiles
    /\ pc = [p \in Procs |-> "idle"]
    /\ call = [p \in Procs |-> NoCall]
    /\ ids = [p \in Procs |-> {}]
    /\ crashed = FALSE
    /\ before = Tracker_read(trackerFile)

NextConc ==
    \E p \in Procs :
        \/ \E op \in TrackerOps, d \in TrackerArgs : TrackerCall(p, op, d)
        \/ TrackerRead(p)
        \/ TrackerOpen(p)
        \/ TrackerWrite(p)

SpecConc == InitConc /\ [][NextConc]_vars

(***************************************************************************)
(* Claims about the store, under Spec.                                     *)
(***************************************************************************)
Listed == Range(list_documents(backend, index, trackerFile))
Registry == Tracker_read(trackerFile)
StoreUnchanged == index' = index /\ metadata' = metadata /\ trackerFile' = trackerFile
AllFiltered == \A i \in DOMAIN last.hits : last.hits[i].similarity < last.threshold

\* C1: once delete_by_document_id(d) has returned, and until an add_chunks
\* call for d, list_documents() does not contain d and no search returns a
\* result whose metadata document_id is d, however many chunks d had.
C1_DeletedStaysDeleted ==
    \A d \in deletedDocs :
        /\ d \notin Listed
        /\ last.op = "search" =>
              \A i \in DOMAIN last.results : last.results[i].document_id # d

\* C2: after add_chunks of a non-empty chunk list under a non-empty id d has
\* returned, list_documents() contains d until delete_by_document_id(d) is
\* called.
C2_AddedIsListed == \A d \in addStored : d \in Listed

C2_Witness ==
    /\ "d1" \in addStored
    /\ last.op = "delete_by_document_id"
    /\ last.doc = "d2"
    /\ Matching(index, "d1") # {}

C4_EmptyAddChangesNothing ==
    [][(last'.op = "add_chunks" /\ last'.n = 0) =>
          /\ last'.ret = <<0>>
          /\ ~last'.raised
          /\ ~last'.wrote
          /\ StoreUnchanged]_vars

C4_Witness ==
    /\ last.op = "add_chunks" /\ last.n = 0 /\ last.ret = <<0>>
    /\ last.doc \in Docs
    /\ last.doc \notin Registry
    /\ Stored(index) > 0

\* C5: delete_by_document_id called as the first operation on a fresh store
\* (so for an id that was never added), or a second time in a row for the
\* same id, raises nothing and leaves the tracker and the index as they were.
C5_DeleteIsIdempotent ==
    [][(/\ last'.op = "delete_by_document_id"
        /\ \/ last.op = "none"
           \/ last.op = "delete_by_document_id" /\ last.doc = last'.doc) =>
          (~last'.raised /\ StoreUnchanged)]_vars

C7_SimilarityInUnitInterval ==
    last.op = "search" =>
        \A i \in DOMAIN last.hits :
            last.hits[i].similarity >= 0 /\ last.hits[i].similarity <= 10

\* C8 as stated: when the threshold removes every candidate of a search on
\* a non-empty index, search returns the closest min(top_k, candidates)
\* candidates unfiltered.
C8_FallbackToClosest ==
    (last.op = "search" /\ last.hits # <<>> /\ AllFiltered) =>
        last.results = Take(last.hits, last.top_k)

\* C8 as amended: when the threshold removes every candidate of a search on
\* a non-empty index, the Chroma backend returns the closest
\* min(top_k, candidates) candidates unfiltered, and every other backend
\* returns the empty list.
C8_FallbackInChromaOnly ==
    (last.op = "search" /\ last.hits # <<>> /\ AllFiltered) =>
        /\ backend = "chroma" => last.results = Take(last.hits, last.top_k)
        /\ backend # "chroma" => last.results = <<>>

C8_Witness ==
    /\ backend = "chroma"
    /\ last.op = "search" /\ last.hits # <<>> /\ AllFiltered
    /\ Len(last.results) = last.top_k
    /\ Len(last.hits) > last.top_k

(***************************************************************************)
(* Claims about the tracker file, under SpecCrash and SpecConc.            *)
(***************************************************************************)
\* C9: if the process stops at any point during _write, a later read of the
\* tracker file yields the complete registry from before the mutation or
\* the complete registry after it.
C9_CrashLeavesOldOrNew ==
    crashed => Tracker_read(trackerFile) \in {before, ids[1]}

\* C10: when two tracker mutations of distinct identifiers run concurrently,
\* both are reflected in the registry once both have returned, whatever the
\* interleaving of their read and write steps.
C10_NoLostUpdate ==
    (/\ \A p \in Procs : pc[p] = "done" /\ call[p].doc # NoDoc
     /\ call[1].doc # call[2].doc) =>
        Tracker_read(trackerFile) = Effect(call[2], Effect(call[1], before))

(***************************************************************************)
(* FaissVectorStore.add_chunks and .delete_by_document_id step by step,    *)
(* for two threads of one process that share the store object: index and   *)
(* metadata are self.index and self._metadata, metaFile and indexFile the  *)
(* two files.  An object's id (uuid4 in the code) is written <<p, i>>: the *)
(* i-th chunk of thread p's call, or of the calls made before (p = 0).     *)
(***************************************************************************)
FaissOps == {"add_chunks", "delete_by_document_id"}
FaissLists == {ChunkList(<<>>, 1), ChunkList(<<"c1">>, 1), ChunkList(<<"c1", "c2">>, 1)}
FaissCalls ==
    {[op |-> "add_chunks", doc |-> d, chunks |-> c] : d \in DocArgs, c \in FaissLists}
        \cup {[op |-> "delete_by_document_id", doc |-> d, chunks |-> ChunkList(<<>>, 1)] :
                d \in DocKeys}
FaissStored == {Object(<<0, 1>>, "d1", "c1"), Object(<<0, 2>>, "d2", "c2")}

\* the metadata entries add_chunks builds, one per chunk, each under a new uid
FaissObjects(p, chunks, document_id) ==
    {Object(<<p, i>>, document_id, At(chunks, i)) : i \in 1..LenOf(chunks)}

\* what the call c of thread p makes of the stored objects S when it runs alone
FaissEffect(S, c, p) ==
    IF c.op = "add_chunks" THEN S \cup FaissObjects(p, c.chunks, c.doc)
    ELSE {e \in S : e.doc # c.doc}

FaissFrame ==
    UNCHANGED <<backend, last, addCompleted, addStored, deletedDocs, ids, crashed, before,
                faissBefore, restVars>>

\* the call is entered; add_chunks of an empty list returns 0 at once
FaissCall(p, c) ==
    /\ pc[p] = "idle"
    /\ call' = [call EXCEPT ![p] = c]
    /\ pc' = [pc EXCEPT ![p] =
                IF c.op = "delete_by_document_id" THEN "ids"
                ELSE IF LenOf(c.chunks) = 0 THEN "done" ELSE "meta"]
    /\ UNCHANGED <<index, metadata, trackerFile, metaFile, indexFile, faissLocal>>
    /\ FaissFrame

\* add_chunks: the loop that fills self._metadata[str(uid)]
FaissAddMetadata(p) ==
    /\ pc[p] = "meta"
    /\ LET new == FaissObjects(p, call[p].chunks, call[p].doc)
       IN  /\ metadata' = metadata (+) SetToBag(new)
           /\ faissLocal' = [faissLocal EXCEPT ![p].ids = new]
    /\ pc' = [pc EXCEPT ![p] = "index"]
    /\ UNCHANGED <<index, trackerFile, metaFile, indexFile, call>>
    /\ FaissFrame

\* add_chunks: self.index.add_with_ids(embeddings, id_array)
FaissAddWithIds(p) ==
    /\ pc[p] = "index"
    /\ index' = index (+) SetToBag(faissLocal[p].ids)
    /\ pc' = [pc EXCEPT ![p] = "dump"]
    /\ UNCHANGED <<metadata, trackerFile, metaFile, indexFile, faissLocal, call>>
    /\ FaissFrame

\* delete_by_document_id: ids_to_remove, and the test of it
FaissIdsToRemove(p) ==
    /\ pc[p] = "ids"
    /\ LET ids_to_remove == Matching(metadata, call[p].doc)
       IN  /\ faissLocal' = [faissLocal EXCEPT ![p].ids = ids_to_remove]
           /\ pc' = [pc EXCEPT ![p] = IF ids_to_remove # {} THEN "remove" ELSE "track"]
    /\ UNCHANGED <<index, metadata, trackerFile, metaFile, indexFile, call>>
    /\ FaissFrame

\* delete_by_document_id: self.index.remove_ids(id_array)
FaissRemoveIds(p) ==
    /\ pc[p] = "remove"
    /\ index' = [e \in BagToSet(index) \ faissLocal[p].ids |-> index[e]]
    /\ pc' = [pc EXCEPT ![p] = "pop"]
    /\ UNCHANGED <<metadata, trackerFile, metaFile, indexFile, faissLocal, call>>
    /\ FaissFrame

\* delete_by_document_id: the loop of self._metadata.pop(str(idx), None)
FaissPop(p) ==
    /\ pc[p] = "pop"
    /\ metadata' = [e \in BagToSet(metadata) \ faissLocal[p].ids |-> metadata[e]]
    /\ pc' = [pc EXCEPT ![p] = "dump"]
    /\ UNCHANGED <<index, trackerFile, metaFile, indexFile, faissLocal, call>>
    /\ FaissFrame

\* _save_metadata: json.dumps(self._metadata, indent=2), the argument of write_text
FaissDumps(p) ==
    /\ pc[p] = "dump"
    /\ faissLocal' = [faissLocal EXCEPT ![p].dump = metadata]
    /\ pc' = [pc EXCEPT ![p] = "write"]
    /\ UNCHANGED <<index, metadata, trackerFile, metaFile, indexFile, call>>
    /\ FaissFrame

\* _save_metadata: write_text writes the text to the metadata file
FaissSaveMetadata(p) ==
    /\ pc[p] = "write"
    /\ metaFile' = faissLocal[p].dump
    /\ pc' = [pc EXCEPT ![p] = "persist"]
    /\ UNCHANGED <<index, metadata, trackerFile, indexFile, faissLocal, call>>
    /\ FaissFrame

\* _persist_index: faiss.write_index(self.index, path)
FaissPersistIndex(p) ==
    /\ pc[p] = "persist"
    /\ indexFile' = index
    /\ pc' = [pc EXCEPT ![p] = "track"]
    /\ UNCHANGED <<index, metadata, trackerFile, metaFile, faissLocal, call>>
    /\ FaissFrame

\* _track_add (if document_id) or _track_remove, and the return
FaissTrack(p) ==
    /\ pc[p] = "track"
    /\ trackerFile' = IF call[p].op = "add_chunks"
                      THEN Tracker_add(trackerFile, call[p].doc)
                      ELSE Tracker_remove(trackerFile, call[p].doc)
    /\ pc' = [pc EXCEPT ![p] = "done"]
    /\ UNCHANGED <<index, metadata, metaFile, indexFile, faissLocal, call>>
    /\ FaissFrame

InitFaiss ==
    /\ backend = "faiss"
    /\ faissBefore \in SUBSET FaissStored
    /\ index = SetToBag(faissBefore)
    /\ metadata = SetToBag(faissBefore)
    /\ metaFile = SetToBag(faissBefore)
    /\ indexFile = SetToBag(faissBefore)
    /\ trackerFile = Tracker_write({e.doc : e \in faissBefore})
    /\ faissLocal = [p \in Procs |-> NoLocal]
    /\ last = NoLast
    /\ addCompleted = {}
    /\ addStored = {}
    /\ deletedDocs = {}
    /\ pc = [p \in Procs |-> "idle"]
    /\ call = [p \in Procs |-> NoCall]
    /\ ids = [p \in Procs |-> {}]
    /\ crashed = FALSE
    /\ before = {}
    /\ RestOff

NextFaiss ==
    \E p \in Procs :
        \/ \E c \in FaissCalls : FaissCall(p, c)
        \/ FaissAddMetadata(p)
        \/ FaissAddWithIds(p)
        \/ FaissIdsToRemove(p)
        \/ FaissRemoveIds(p)
        \/ FaissPop(p)
        \/ FaissDumps(p)
        \/ FaissSaveMetadata(p)
        \/ FaissPersistIndex(p)
        \/ FaissTrack(p)

SpecFaiss == InitFaiss /\ [][NextFaiss]_vars

FaissSerial(S) ==
    /\ index = SetToBag(S)
    /\ metadata = SetToBag(S)
    /\ indexFile = SetToBag(S)
    /\ metaFile = SetToBag(S)

\* C11: once two concurrent add_chunks / delete_by_document_id calls on the
\* FAISS store have both returned, the in-memory index and metadata map and
\* the two persisted files hold what the two calls leave when they run one
\* after the other, in one order or the other: no added chunk is lost and
\* no deleted chunk is back.
C11_FaissCallsSerialized ==
    (\A p \in Procs : pc[p] = "done") =>
        \/ FaissSerial(FaissEffect(FaissEffect(faissBefore, call[1], 1), call[2], 2))
        \/ FaissSerial(FaissEffect(FaissEffect(faissBefore, call[2], 2), call[1], 1))

(***************************************************************************)
(* The API's handlers on the event loop.  Each is an async def, run by the *)
(* loop's one thread; chat, upload_document, list_documents and            *)
(* delete_document call the RAG chain, the ingestion pipeline and the      *)
(* vector store directly, with no executor or thread in between, so the    *)
(* call runs on that thread; chat_stream returns a StreamingResponse over  *)
(* a plain generator, which the framework iterates on a worker thread.     *)
(* pc is a request's position: "queued" once received, "reading" while     *)
(* suspended at await file.read(), "blocking" inside a call on the loop's  *)
(* thread, "streaming" inside a call on a worker thread.                   *)
(***************************************************************************)
Handlers == {"chat", "chat_stream", "upload_document", "list_documents", "delete_document"}

LoopFrame ==
    UNCHANGED <<storeVars, ids, crashed, before, faissVars, chain, factory, tracker, moreVars>>

\* a request arrives and its handler is scheduled on the loop
Receive(r, h) ==
    /\ pc[r] = "idle"
    /\ pc' = [pc EXCEPT ![r] = "queued"]
    /\ call' = [call EXCEPT ![r] = [op |-> h, doc |-> NoDoc]]
    /\ UNCHANGED loop
    /\ LoopFrame

\* the loop runs the handler up to its first await or into its blocking call
StartHandler(r) ==
    /\ pc[r] = "queued"
    /\ loop = 0
    /\ pc' = [pc EXCEPT ![r] = CASE call[r].op = "upload_document" -> "reading"
                                 [] call[r].op = "chat_stream" -> "streaming"
                                 [] OTHER -> "blocking"]
    /\ loop' = IF call[r].op \in {"chat", "list_documents", "delete_document"} THEN r ELSE 0
    /\ UNCHANGED call
    /\ LoopFrame

\* upload_document resumes after await file.read() and calls process_file, add_chunks
ResumeHandler(r) ==
    /\ pc[r] = "reading"
    /\ loop = 0
    /\ pc' = [pc EXCEPT ![r] = "blocking"]
    /\ loop' = r
    /\ UNCHANGED call
    /\ LoopFrame

\* the blocking call returns and the handler returns its response
FinishHandler(r) ==
    /\ pc[r] \in {"blocking", "streaming"}
    /\ pc' = [pc EXCEPT ![r] = "idle"]
    /\ call' = [call EXCEPT ![r] = NoCall]
    /\ loop' = IF loop = r THEN 0 ELSE loop
    /\ LoopFrame

InitLoop ==
    /\ StoreIdle
    /\ trackerFile = NoFile
    /\ pc = [p \in Procs |-> "idle"]
    /\ call = [p \in Procs |-> NoCall]
    /\ ids = [p \in Procs |-> {}]
    /\ crashed = FALSE
    /\ before = {}
    /\ ExtraOff

NextLoop ==
    \E r \in Procs :
        \/ \E h \in Handlers : Receive(r, h)
        \/ StartHandler(r)
        \/ ResumeHandler(r)
        \/ FinishHandler(r)

SpecLoop == InitLoop /\ [][NextLoop]_vars

\* C12: while one request is inside a blocking vector-store or generation
\* call, every other request in flight can take its next step.
C12_OtherRequestsProgress ==
    \A a, b \in Procs :
        (a # b /\ pc[a] \in {"blocking", "streaming"} /\ pc[b] \in {"queued", "reading"}) =>
            ENABLED (StartHandler(b) \/ ResumeHandler(b))

(***************************************************************************)
(* RAGChain.query and .query_stream.  A text is the sequence of its        *)
(* characters, a message of the chain one element; the context string is   *)
(* the sequence of its parts.  A metadata key that is missing has the      *)
(* value ABSENT, and None is NONE.                                         *)
(***************************************************************************)
MaxResults == 2
MaxStream == 2
ExcerptLimit == 500

NONE == "None"
NoKnowledge == <<"I don't have specific information about that in my knowledge base yet.">>
NoKnowledgeStream == "I don't have specific information about that yet."
StreamError == "Sorry, I encountered an error."

\* the contents search may return: short, of exactly the limit, longer, empty
ShortText == <<"s", "h">>
LimitText == [i \in 1..ExcerptLimit |-> "y"]
LongText == [i \in 1..(ExcerptLimit + 1) |-> "x"]

\* the metadata of a chunk of a PDF, of a Markdown file, and missing metadata
PdfMeta == [source |-> "a.pdf", page |-> "1"]
MdMeta == [source |-> "b.md", page |-> ABSENT]
NoMeta == [source |-> ABSENT, page |-> ABSENT]

\* the results search may return
ChainResults ==
    {[content |-> ShortText, metadata |-> PdfMeta], [content |-> ShortText, metadata |-> NoMeta],
     [content |-> LimitText, metadata |-> MdMeta], [content |-> LongText, metadata |-> PdfMeta],
     [content |-> LongText, metadata |-> NoMeta], [content |-> <<>>, metadata |-> MdMeta]}
ResultLists == UNION {[1..n -> ChainResults] : n \in 0..MaxResults}

\* what client.generate does: it returns a response, or raises an exception
\* whose status_code is 401, 404, another one, or missing (ABSENT)
Generations ==
    {[kind |-> "ok", status |-> ABSENT, response |-> r] : r \in {<<"a">>, <<" ", "a", " ">>}}
        \cup {[kind |-> "raise", status |-> st, response |-> <<>>] :
                st \in {"401", "404", "500", ABSENT}}

\* what the stream gives: its chunks (<<text>>, or <<>> for one without the
\* "response" key) and the number of chunks after which it raises (-1: never;
\* 0: when it is opened or before its first chunk)
Streams ==
    {[chunks |-> c, fail |-> f] :
        c \in UNION {[1..n -> {<<"f1">>, <<"f2">>, <<>>}] : n \in 0..MaxStream},
        f \in -1..MaxStream}

\* str.strip()
RECURSIVE Strip(_)
Strip(text) ==
    IF text = <<>> THEN text
    ELSE IF Head(text) = " " THEN Strip(Tail(text))
    ELSE IF text[Len(text)] = " " THEN Strip(SubSeq(text, 1, Len(text) - 1))
    ELSE text

_build_context(results) ==
    [i \in DOMAIN results |->
        [label |-> i,
         source |-> IF results[i].metadata.source = ABSENT THEN UNKNOWN
                    ELSE results[i].metadata.source,
         page_str |-> IF results[i].metadata.page = ABSENT THEN ""
                      ELSE results[i].metadata.page,
         content |-> results[i].content]]

Snippet(results) ==
    IF results # <<>> /\ Len(results[1].content) > ExcerptLimit
    THEN SubSeq(results[1].content, 1, ExcerptLimit) \o <<"...">>
    ELSE IF results # <<>> THEN results[1].content ELSE <<>>

\* the answer built in the except branch of query
FallbackAnswer(results, status, cloud) ==
    IF cloud
    THEN <<"Ollama Cloud error", IF status = ABSENT THEN "connection" ELSE status,
           CASE status = "401" -> "hint: key" [] status = "404" -> "hint: model"
             [] OTHER -> "hint: key, network, model",
           "Here's relevant text from your documents:">> \o Snippet(results)
    ELSE <<"Ollama isn't running", "Here's relevant text from your documents:">>
            \o Snippet(results)

ChainSources(results) ==
    [i \in DOMAIN results |->
        [source |-> IF results[i].metadata.source = ABSENT THEN NONE
                    ELSE results[i].metadata.source,
         page |-> IF results[i].metadata.page = ABSENT THEN NONE
                  ELSE results[i].metadata.page]]

Response(c, results, gen, generated, raised, answer, sources, chunks, context) ==
    [c EXCEPT !.phase = "done", !.op = "query", !.results = results,
              !.gen = IF generated = 0 THEN <<>> ELSE gen, !.generated = generated,
              !.raised = raised, !.answer = answer, !.sources = sources,
              !.context_chunks = chunks, !.context = context, !.yielded = <<>>]

query_AlwaysGenerates(c, results, gen) ==
    Response(c, results, gen, 1, FALSE, Strip(gen.response), ChainSources(results),
             [i \in DOMAIN results |-> results[i].content], _build_context(results))

query_NoFallback(c, results, gen) ==
    Response(c, results, gen, 1, gen.kind = "raise", Strip(gen.response), <<>>, <<>>,
             _build_context(results))

query_SourcesOfFirst(c, results, gen) ==
    Response(c, results, gen, 1, FALSE, Strip(gen.response),
             [i \in DOMAIN results |-> ChainSources(results)[1]],
             [i \in DOMAIN results |-> results[i].content], _build_context(results))

\* RAGChain.query, given what search returns and what client.generate does
query(c, results, gen) ==
    LET context == IF results # <<>> THEN _build_context(results) ELSE <<>>
    IN  IF context = <<>>
        THEN Response(c, results, gen, 0, FALSE, NoKnowledge, <<>>, <<>>, context)
        ELSE Response(c, results, gen, 1, FALSE,
                      IF gen.kind = "ok" THEN Strip(gen.response)
                      ELSE FallbackAnswer(results, gen.status, c.cloud),
                      ChainSources(results),
                      [i \in DOMAIN results |-> results[i].content], context)

\* the texts the loop over the stream yields from the chunks it gets to see
Fragments(chunks) ==
    LET got == SelectSeq(chunks, LAMBDA ch : ch # <<>>)
    IN  [i \in DOMAIN got |-> got[i][1]]

Streamed(c, results, stream, generated, raised, yielded) ==
    [c EXCEPT !.phase = "done", !.op = "query_stream", !.results = results,
              !.gen = IF generated = 0 THEN <<>> ELSE stream, !.generated = generated,
              !.raised = raised, !.yielded = yielded]

query_stream_Raises(c, results, stream) ==
    LET failed == stream.fail >= 0 /\ stream.fail <= Len(stream.chunks)
        seen == IF failed THEN Take(stream.chunks, stream.fail) ELSE stream.chunks
    IN  Streamed(c, results, stream, 1, failed, Fragments(seen))

\* RAGChain.query_stream, run to the end of the generator
query_stream(c, results, stream) ==
    LET failed == stream.fail >= 0 /\ stream.fail <= Len(stream.chunks)
        seen == IF failed THEN Take(stream.chunks, stream.fail) ELSE stream.chunks
    IN  IF results = <<>>
        THEN Streamed(c, results, stream, 0, FALSE, <<NoKnowledgeStream>>)
        ELSE Streamed(c, results, stream, 1, FALSE,
                      Fragments(seen) \o (IF failed THEN <<StreamError>> ELSE <<>>))

ChainFrame == UNCHANGED <<storeVars, procVars, faissVars, loop, factory, tracker, moreVars>>

\* query or query_stream is called and search returns
ChainSearch(op, results) ==
    /\ chain.phase = "idle"
    /\ chain' = [chain EXCEPT !.phase = "searched", !.op = op, !.results = results]
    /\ ChainFrame

\* the rest of query, with what client.generate does if it is called
Query(gen) ==
    /\ chain.phase = "searched" /\ chain.op = "query"
    /\ chain' = query(chain, chain.results, gen)
    /\ ChainFrame

\* the rest of query_stream, with what the stream does if it is opened
QueryStream(stream) ==
    /\ chain.phase = "searched" /\ chain.op = "query_stream"
    /\ chain' = query_stream(chain, chain.results, stream)
    /\ ChainFrame

\* the caller has the response; the chain is free for the next call
ChainReturn ==
    /\ chain.phase = "done"
    /\ chain' = [NoChain EXCEPT !.cloud = chain.cloud]
    /\ ChainFrame

InitChain ==
    /\ StoreIdle
    /\ trackerFile = NoFile
    /\ ProcsOff
    /\ FaissOff
    /\ loop = 0
    /\ FactoryOff
    /\ TrackerOff
    /\ MoreOff
    /\ chain \in {[NoChain EXCEPT !.cloud = k] : k \in BOOLEAN}

NextChain ==
    \/ \E op \in {"query", "query_stream"}, results \in ResultLists : ChainSearch(op, results)
    \/ \E gen \in Generations : Query(gen)
    \/ \E stream \in Streams : QueryStream(stream)
    \/ ChainReturn

SpecChain == InitChain /\ [][NextChain]_vars

(***************************************************************************)
(* Claims about the RAG chain, under SpecChain.                            *)
(***************************************************************************)
Answered(op) == chain.phase = "done" /\ chain.op = op

\* C13: when search finds nothing, query returns the canned answer with no
\* sources and no context chunks, query_stream yields the one canned message
\* and ends, and neither calls the generation backend.
C13_NoResultsNoGeneration ==
    (chain.phase = "done" /\ chain.results = <<>>) =>
        /\ chain.generated = 0
        /\ ~chain.raised
        /\ chain.op = "query" =>
              chain.answer = NoKnowledge /\ chain.sources = <<>> /\ chain.context_chunks = <<>>
        /\ chain.op = "query_stream" => chain.yielded = <<NoKnowledgeStream>>

C13_Witness == Answered("query") /\ chain.results = <<>> /\ chain.answer # <<>>

\* C14: when the generation backend raises and search returned results,
\* query returns normally with a non-empty answer that ends with the first
\* result's content, whole if it has at most 500 characters and else its
\* first 500 characters and an ellipsis, and with the sources and context
\* chunks it returns on success.
C14_GenerationFailureFallsBack ==
    (Answered("query") /\ chain.generated = 1 /\ chain.gen.kind = "raise") =>
        LET first == chain.results[1].content
            excerpt == IF Len(first) <= ExcerptLimit THEN first
                       ELSE SubSeq(first, 1, ExcerptLimit) \o <<"...">>
            n == Len(chain.answer)
            ok == query(chain, chain.results,
                        [kind |-> "ok", status |-> ABSENT, response |-> <<"a">>])
        IN  /\ ~chain.raised
            /\ chain.answer # <<>>
            /\ n >= Len(excerpt)
            /\ SubSeq(chain.answer, n - Len(excerpt) + 1, n) = excerpt
            /\ chain.sources = ok.sources /\ chain.sources # <<>>
            /\ chain.context_chunks = ok.context_chunks /\ chain.context_chunks # <<>>

C14_Witness ==
    /\ Answered("query") /\ chain.generated = 1 /\ chain.gen.kind = "raise"
    /\ Len(chain.results) = 2
    /\ Len(chain.results[1].content) > ExcerptLimit
    /\ Len(chain.answer) > ExcerptLimit

\* C15: when the generation backend raises as the stream is opened or after
\* some chunks, query_stream yields the fragments it got, then one error
\* message, then ends, and raises nothing.
C15_StreamFailureEndsWithOneError ==
    (/\ Answered("query_stream") /\ chain.generated = 1
     /\ chain.gen.fail >= 0 /\ chain.gen.fail <= Len(chain.gen.chunks)) =>
        LET seen == SubSeq(chain.gen.chunks, 1, chain.gen.fail)
            n == Cardinality({i \in DOMAIN seen : seen[i] # <<>>})
        IN  /\ ~chain.raised
            /\ Len(chain.yielded) = n + 1
            /\ chain.yielded[n + 1] = StreamError
            /\ SubSeq(chain.yielded, 1, n) = Fragments(seen)

C15_Witness ==
    /\ Answered("query_stream") /\ chain.generated = 1
    /\ chain.gen.fail = MaxStream
    /\ Len(chain.yielded) = MaxStream + 1

ProviderNames ==
    { <<>>,
      <<"c", "h", "r", "o", "m", "a">>,
      <<"p", "i", "n", "e", "c", "o", "n", "e">>,
      <<"P", "i", "n", "e", "c", "o", "n", "e">>,
      <<"q", "d", "r", "a", "n", "t">>,
      <<"m", "i", "l", "v", "u", "s">>,
      <<"f", "a", "i", "s", "s">>,
      <<"F", "A", "I", "S", "S">>,
      <<"p", "g", "v", "e", "c", "t", "o", "r">>,
      <<"w", "e", "a", "v", "i", "a", "t", "e">>,
      <<"r", "e", "d", "i", "s">> }

Configs ==
    [provider : ProviderNames, pinecone_key : BOOLEAN, pg_conn : BOOLEAN, db_url : BOOLEAN]

\* str.lower
LowerChar(ch) ==
    CASE ch = "P" -> "p" [] ch = "F" -> "f" [] ch = "A" -> "a"
      [] ch = "I" -> "i" [] ch = "S" -> "s" [] OTHER -> ch
Lower(name) == [i \in DOMAIN name |-> LowerChar(name[i])]

\* an exception: its type and the settings its message names
ValueError(names) == [type |-> "ValueError", names |-> names]

\* VectorStore.__init__: self.tracker = tracker or DocumentTracker()
VectorStore__init__(trackers, given) ==
    IF given = 0 THEN [trackers |-> trackers + 1, tracker |-> trackers + 1]
    ELSE [trackers |-> trackers, tracker |-> given]

\* the start of the backend's __init__: the base class's, then the check of
\* the backend's own credential
Construct(cls, cfg, trackers, given) ==
    LET base == VectorStore__init__(trackers, given)
        raised ==
            IF cls = "PineconeVectorStore" /\ ~cfg.pinecone_key
            THEN ValueError({"Pinecone API key"})
            ELSE IF cls = "PgvectorVectorStore" /\ ~cfg.pg_conn /\ ~cfg.db_url
            THEN ValueError({"PGVECTOR_CONNECTION_STRING", "DATABASE_URL"})
            ELSE <<>>
    IN  [phase |-> "done", cfg |-> cfg, trackers |-> base.trackers,
         constructed |-> <<[cls |-> cls, tracker |-> base.tracker]>>,
         raised |-> raised,
         ret |-> IF raised = <<>> THEN <<cls>> ELSE <<>>]

Raise(cfg, trackers, error) ==
    [phase |-> "done", cfg |-> cfg, trackers |-> trackers, constructed |-> <<>>,
     raised |-> error, ret |-> <<>>]

ProviderClass(provider) ==
    CASE provider = <<"p", "i", "n", "e", "c", "o", "n", "e">> -> "PineconeVectorStore"
      [] provider = <<"q", "d", "r", "a", "n", "t">> -> "QdrantVectorStore"
      [] provider = <<"m", "i", "l", "v", "u", "s">> -> "MilvusVectorStore"
      [] provider = <<"f", "a", "i", "s", "s">> -> "FaissVectorStore"
      [] provider = <<"p", "g", "v", "e", "c", "t", "o", "r">> -> "PgvectorVectorStore"
      [] provider = <<"w", "e", "a", "v", "i", "a", "t", "e">> -> "WeaviateVectorStore"
      [] OTHER -> "ChromaVectorStore"

\* create_vector_store with no tracker handed to the constructor
create_vector_store_NoTracker(cfg) ==
    LET name == IF cfg.provider = <<>> THEN <<"c", "h", "r", "o", "m", "a">> ELSE cfg.provider
    IN  Construct(ProviderClass(Lower(name)), cfg, 1, 0)

\* create_vector_store without its own checks of the credentials
create_vector_store_NoChecks(cfg) ==
    LET name == IF cfg.provider = <<>> THEN <<"c", "h", "r", "o", "m", "a">> ELSE cfg.provider
    IN  Construct(ProviderClass(Lower(name)), cfg, 1, 1)

create_vector_store(cfg) ==
    LET provider ==
            Lower(IF cfg.provider = <<>> THEN <<"c", "h", "r", "o", "m", "a">> ELSE cfg.provider)
        \* tracker = DocumentTracker(): the first tracker of the call
        made == 1
    IN  IF provider = <<"p", "i", "n", "e", "c", "o", "n", "e">> /\ ~cfg.pinecone_key
        THEN Raise(cfg, made, ValueError({"PINECONE_API_KEY"}))
        ELSE IF provider = <<"p", "g", "v", "e", "c", "t", "o", "r">> /\ ~cfg.pg_conn /\ ~cfg.db_url
        THEN Raise(cfg, made, ValueError({"PGVECTOR_CONNECTION_STRING", "DATABASE_URL"}))
        ELSE Construct(ProviderClass(provider), cfg, made, made)

FactoryFrame == UNCHANGED <<storeVars, procVars, faissVars, loop, chain, tracker, moreVars>>

\* the process starts with the environment's settings
Configure(cfg) ==
    /\ factory.phase = "idle"
    /\ factory' = [NoFactory EXCEPT !.phase = "configured", !.cfg = cfg]
    /\ FactoryFrame

\* api/main.py: vector_store = create_vector_store()
CreateVectorStore ==
    /\ factory.phase = "configured"
    /\ factory' = create_vector_store(factory.cfg)
    /\ FactoryFrame

\* the process ends
FactoryExit ==
    /\ factory.phase = "done"
    /\ factory' = NoFactory
    /\ FactoryFrame

InitFactory ==
    /\ StoreIdle
    /\ trackerFile = NoFile
    /\ ProcsOff
    /\ ExtraOff

NextFactory ==
    \/ \E cfg \in Configs : Configure(cfg)
    \/ CreateVectorStore
    \/ FactoryExit

SpecFactory == InitFactory /\ [][NextFactory]_vars

Created == factory.phase = "done"

Provider == Lower(factory.cfg.provider)

\* C17: create_vector_store constructs one DocumentTracker and calls the one
\* backend constructor of the configured provider, once, with that tracker;
\* for a name that is none of the supported ones it is Chroma's.
C17_OneConstructorOneTracker ==
    Created =>
        /\ factory.trackers = 1
        /\ Len(factory.constructed) <= 1
        /\ factory.raised = <<>> =>
              /\ Len(factory.constructed) = 1
              /\ factory.constructed[1].tracker = 1
              /\ factory.ret = <<factory.constructed[1].cls>>
              /\ LET cls == factory.constructed[1].cls
                 IN  /\ cls = "PineconeVectorStore" <=> Provider = <<"p", "i", "n", "e", "c", "o", "n", "e">>
                     /\ cls = "QdrantVectorStore" <=> Provider = <<"q", "d", "r", "a", "n", "t">>
                     /\ cls = "MilvusVectorStore" <=> Provider = <<"m", "i", "l", "v", "u", "s">>
                     /\ cls = "FaissVectorStore" <=> Provider = <<"f", "a", "i", "s", "s">>
                     /\ cls = "PgvectorVectorStore" <=> Provider = <<"p", "g", "v", "e", "c", "t", "o", "r">>
                     /\ cls = "WeaviateVectorStore" <=> Provider = <<"w", "e", "a", "v", "i", "a", "t", "e">>
                     /\ cls \in {"PineconeVectorStore", "QdrantVectorStore", "MilvusVectorStore",
                                 "FaissVectorStore", "PgvectorVectorStore",
                                 "WeaviateVectorStore", "ChromaVectorStore"}

C17_Witness ==
    /\ Created
    /\ factory.cfg.provider = <<"r", "e", "d", "i", "s">>
    /\ factory.ret = <<"ChromaVectorStore">>
    /\ factory.trackers = 1

\* C18: with Pinecone configured and no API key, or pgvector configured and
\* neither connection string nor database URL, create_vector_store raises an
\* error that names the missing setting, and no backend is built or returned.
C18_MissingCredentialRaises ==
    Created =>
        /\ (Provider = <<"p", "i", "n", "e", "c", "o", "n", "e">> /\ ~factory.cfg.pinecone_key) =>
              /\ factory.raised # <<>>
              /\ "PINECONE_API_KEY" \in factory.raised.names
              /\ factory.ret = <<>>
              /\ factory.constructed = <<>>
        /\ (/\ Provider = <<"p", "g", "v", "e", "c", "t", "o", "r">>
            /\ ~factory.cfg.pg_conn /\ ~factory.cfg.db_url) =>
              /\ factory.raised # <<>>
              /\ {"PGVECTOR_CONNECTION_STRING", "DATABASE_URL"} \subseteq factory.raised.names
              /\ factory.ret = <<>>
              /\ factory.constructed = <<>>

C18_Witness ==
    /\ Created
    /\ factory.cfg.provider = <<"P", "i", "n", "e", "c", "o", "n", "e">>
    /\ ~factory.cfg.pinecone_key
    /\ factory.raised # <<>>

(***************************************************************************)
(* DocumentTracker on its own: one caller, one call at a time, every call  *)
(* completed, and restarts of the process between calls.                   *)
(***************************************************************************)
TrackerFrame == UNCHANGED <<backend, index, metadata, last, addCompleted, addStored,
                            deletedDocs, procVars, faissVars, loop, chain, factory,
                            moreVars>>

Called(op, document_id, ret, registered) ==
    [tracker EXCEPT !.op = op, !.doc = document_id, !.fileBefore = trackerFile,
                    !.raised = FALSE,
                    !.ret = ret, !.registered = registered, !.fresh = FALSE,
                    !.current = (op = "list") \/ (tracker.current /\ op = "init"),
                    !.listed = IF op = "list" THEN ret ELSE tracker.listed,
                    !.prev = tracker.listed, !.prevCurrent = tracker.current,
                    !.restarted = tracker.fresh]

\* the call reaches _read and read_text raises there
ReadRaises(op, document_id) ==
    /\ Undecodable(trackerFile)
    /\ op = "list" \/ document_id # NoDoc

Raised(op, document_id) ==
    [Called(op, document_id, <<>>, tracker.registered) EXCEPT !.raised = TRUE]

TrackerAdd(document_id) ==
    /\ IF ReadRaises("add", document_id)
       THEN trackerFile' = trackerFile /\ tracker' = Raised("add", document_id)
       ELSE /\ trackerFile' = Tracker_add(trackerFile, document_id)
            /\ tracker' = Called("add", document_id, <<>>,
                                 IF document_id = NoDoc THEN tracker.registered
                                 ELSE tracker.registered \cup {document_id})
    /\ TrackerFrame

TrackerRemove(document_id) ==
    /\ IF ReadRaises("remove", document_id)
       THEN trackerFile' = trackerFile /\ tracker' = Raised("remove", document_id)
       ELSE /\ trackerFile' = Tracker_remove(trackerFile, document_id)
            /\ tracker' = Called("remove", document_id, <<>>,
                                 tracker.registered \ {document_id})
    /\ TrackerFrame

TrackerList ==
    /\ trackerFile' = trackerFile
    /\ tracker' = IF ReadRaises("list", NoDoc) THEN Raised("list", NoDoc)
                  ELSE Called("list", NoDoc, Tracker_list(trackerFile), tracker.registered)
    /\ TrackerFrame

\* the process ends and a new one constructs its DocumentTracker on the path
TrackerRestart ==
    /\ ~tracker.fresh
    /\ trackerFile' = DocumentTracker__init__(trackerFile)
    /\ tracker' = [Called("init", NoDoc, <<>>, tracker.registered) EXCEPT !.fresh = TRUE]
    /\ TrackerFrame

InitTracker ==
    /\ StoreIdle
    /\ trackerFile = NoFile
    /\ ProcsOff
    /\ FaissOff
    /\ loop = 0 /\ chain = NoChain /\ FactoryOff /\ MoreOff
    /\ tracker = NoTracker

NextTracker ==
    \/ \E d \in TrackerArgs : TrackerAdd(d)
    \/ \E d \in TrackerArgs : TrackerRemove(d)
    \/ TrackerList
    \/ TrackerRestart

SpecTracker == InitTracker /\ [][NextTracker]_vars

\* a comes before b in Python's order on the identifiers
Precedes(a, b) ==
    \E i, j \in DOMAIN DocOrder : i < j /\ DocOrder[i] = a /\ DocOrder[j] = b

\* C19: add of an identifier that is present and remove of one that is absent
\* leave the registry, and so list(), as they were; list() returns the
\* registered identifiers, each once, in ascending order.
C19_NoOpsAndSortedList ==
    /\ (tracker.op = "add" /\ tracker.doc \in Tracker_read(tracker.fileBefore)) =>
          /\ trackerFile = tracker.fileBefore
          /\ Tracker_list(trackerFile) = Tracker_list(tracker.fileBefore)
    /\ (tracker.op = "remove" /\ tracker.doc \notin Tracker_read(tracker.fileBefore)) =>
          /\ trackerFile = tracker.fileBefore
          /\ Tracker_list(trackerFile) = Tracker_list(tracker.fileBefore)
    /\ tracker.op = "list" =>
          /\ Range(tracker.ret) = tracker.registered
          /\ \A i, j \in DOMAIN tracker.ret : i < j => Precedes(tracker.ret[i], tracker.ret[j])

C19_Witness ==
    /\ tracker.op = "add"
    /\ tracker.doc = "d1"
    /\ tracker.doc \in Tracker_read(tracker.fileBefore)
    /\ tracker.registered = {"d1", "d2"}

\* C20: list() of a DocumentTracker constructed on the same path after a
\* restart returns what list() of the instance before it returned, the
\* identifiers added and not removed since.
C20_ListSurvivesRestart ==
    (tracker.op = "list" /\ tracker.restarted) =>
        /\ tracker.prevCurrent => tracker.ret = tracker.prev
        /\ Range(tracker.ret) = tracker.registered

C20_Witness ==
    /\ tracker.op = "list" /\ tracker.restarted /\ tracker.prevCurrent
    /\ tracker.ret = <<"d1", "d2">>

(***************************************************************************)
(* DocumentTracker on a path whose file something else has written or      *)
(* damaged: the calls of SpecTracker, starting from any such file.         *)
(***************************************************************************)
\* texts that json.loads rejects (a cut-off array, no text at all)
InvalidJson == {<<"[", "d1">>, <<>>}
\* texts that json.loads accepts and that are no array
NotAnArray == {<<"{", "}">>, <<"null">>}
\* texts that do not decode
NotUtf8 == {<<BadBytes>>, <<"[", BadBytes, "]">>}

FoundFiles ==
    {NoFile} \cup {[exists |-> TRUE, text |-> t] : t \in InvalidJson \cup NotAnArray \cup NotUtf8}

InitFound ==
    /\ StoreIdle
    /\ trackerFile \in FoundFiles
    /\ ProcsOff
    /\ FaissOff
    /\ loop = 0 /\ chain = NoChain /\ FactoryOff /\ MoreOff
    /\ tracker = NoTracker

SpecFound == InitFound /\ [][NextTracker]_vars

\* the file is missing, is not JSON, or is JSON and no array
Unusable(file) == ~file.exists \/ ~JsonIsList(file.text)

\* C21: on a tracker file that is missing, is not valid JSON or is no JSON
\* array, list() returns the empty list, add and remove return without
\* raising, and after add(d) list() is [d].
C21_UnusableFileIsEmpty ==
    Unusable(tracker.fileBefore) =>
        /\ ~tracker.raised
        /\ tracker.op = "list" => tracker.ret = <<>>
        /\ (tracker.op = "add" /\ tracker.doc # NoDoc) =>
              Tracker_list(trackerFile) = <<tracker.doc>>

(***************************************************************************)
(* get_embedding_function under functools.lru_cache(maxsize=1), called by  *)
(* the backends' constructors from the threads of one process.  The cache  *)
(* is looked up, and on a miss the function runs outside any lock and its  *)
(* result is stored when it returns; a function is named by its place in   *)
(* built, the list of the providers constructed so far.                    *)
(***************************************************************************)
MaxEmbedCalls == 2

EmbedConfigs == [provider : {"openai", "sentence_transformers"}, key : BOOLEAN]

\* the provider the body of get_embedding_function constructs
get_embedding_function(cfg) ==
    IF cfg.provider = "openai" /\ cfg.key THEN "OpenAI" ELSE "SentenceTransformer"

EmbedFrame ==
    UNCHANGED <<storeVars, call, ids, crashed, before, faissVars, loop, chain, factory, tracker,
                prior, qdrant, chunker>>

\* the wrapper looks the call up in the cache
EmbedLookup(p) ==
    /\ pc[p] = "idle"
    /\ embed.calls[p] < MaxEmbedCalls
    /\ IF embed.cache # <<>>
       THEN /\ embed' = [embed EXCEPT !.got[p] = embed.cache[1], !.calls[p] = @ + 1]
            /\ pc' = [pc EXCEPT ![p] = "idle"]
       ELSE /\ embed' = [embed EXCEPT !.got[p] = 0, !.calls[p] = @ + 1]
            /\ pc' = [pc EXCEPT ![p] = "missed"]
    /\ EmbedFrame

\* the body runs: the client or the model is constructed, embed is defined
EmbedBuild(p) ==
    /\ pc[p] = "missed"
    /\ embed' = [embed EXCEPT !.built = Append(@, get_embedding_function(embed.cfg)),
                              !.fn[p] = Len(embed.built) + 1]
    /\ pc' = [pc EXCEPT ![p] = "built"]
    /\ EmbedFrame

\* the wrapper stores the result unless the key was stored meanwhile, and
\* returns the result of its own call
EmbedStore(p) ==
    /\ pc[p] = "built"
    /\ embed' = [embed EXCEPT !.cache = IF @ = <<>> THEN <<embed.fn[p]>> ELSE @,
                              !.got[p] = embed.fn[p]]
    /\ pc' = [pc EXCEPT ![p] = "idle"]
    /\ EmbedFrame

InitEmbed ==
    /\ StoreIdle
    /\ trackerFile = NoFile
    /\ pc = [p \in Procs |-> "idle"]
    /\ call = [p \in Procs |-> NoCall]
    /\ ids = [p \in Procs |-> {}]
    /\ crashed = FALSE
    /\ before = {}
    /\ FaissOff
    /\ loop = 0 /\ chain = NoChain /\ FactoryOff /\ TrackerOff
    /\ embed \in {[NoEmbed EXCEPT !.cfg = c] : c \in EmbedConfigs}
    /\ prior = NoPrior
    /\ qdrant = NoQdrant
    /\ chunker = NoChunker

NextEmbed ==
    \E p \in Procs :
        \/ EmbedLookup(p)
        \/ EmbedBuild(p)
        \/ EmbedStore(p)

SpecEmbed == InitEmbed /\ [][NextEmbed]_vars

\* C22: with the openai provider selected and no API key, no embedding
\* provider is constructed and no call returns an embedding function.
C22_NoKeyNoProvider ==
    (embed.cfg.provider = "openai" /\ ~embed.cfg.key) =>
        /\ embed.built = <<>>
        /\ \A p \in Procs : embed.got[p] = 0

\* C23: the embedding provider is constructed at most once, and all calls
\* that have returned hold the same embedding function.
C23_BuiltOnceAndShared ==
    /\ Len(embed.built) <= 1
    /\ \A p, q \in Procs :
          (embed.got[p] # 0 /\ embed.got[q] # 0) => embed.got[p] = embed.got[q]

(***************************************************************************)
(* Store calls in which a step may fail.  point names the step of the call *)
(* that fails: "embed" the embedding function, "write" the backend's write *)
(* (collection.add, add_with_ids, insert, upsert, INSERT, the batch),      *)
(* "delete" the backend's delete, "save" and "persist" FAISS's             *)
(* _save_metadata and _persist_index, and "object" an object that          *)
(* Weaviate's batch rejects, which the batch records in failed_objects and *)
(* does not raise.                                                         *)
(***************************************************************************)
AddPoints(b) ==
    {"none", "embed", "write"}
        \cup (IF b = "faiss" THEN {"save", "persist"} ELSE {})
        \cup (IF b = "weaviate" THEN {"object"} ELSE {})

DeletePoints(b) == {"none", "delete"} \cup (IF b = "faiss" THEN {"save", "persist"} ELSE {})

\* the call left by an exception: nothing returned
Failed(idx, meta, file, wrote) == Outcome(idx, meta, file, <<>>, TRUE, wrote)

add_chunks_failing(b, idx, meta, file, chunks, document_id, onDuplicate, point) ==
    IF LenOf(chunks) = 0 \/ point = "none"
    THEN add_chunks(b, idx, meta, file, chunks, document_id, onDuplicate)
    ELSE LET new == FreshObjects(chunks, document_id)
         IN  CASE point = "embed" -> Failed(idx, meta, file, FALSE)
               [] point = "write" ->
                    \* FAISS has filled self._metadata before add_with_ids
                    Failed(idx, IF b = "faiss" THEN meta (+) new ELSE meta, file, FALSE)
               [] point \in {"save", "persist"} -> Failed(idx (+) new, meta (+) new, file, TRUE)
               [] point = "object" ->
                    Outcome(idx, meta, Tracker_add(file, document_id), <<LenOf(chunks)>>,
                            FALSE, FALSE)

delete_failing(b, idx, meta, file, document_id, point) ==
    LET out == delete_by_document_id(b, idx, meta, file, document_id)
    IN  CASE point = "none" -> out
          [] point = "delete" -> Failed(idx, meta, file, FALSE)
          [] point \in {"save", "persist"} ->
               IF out.wrote THEN Failed(out.index, out.metadata, file, TRUE) ELSE out

FailFrame ==
    UNCHANGED <<backend, addCompleted, addStored, deletedDocs, procVars, faissVars, loop, chain,
                factory, tracker, embed, qdrant, chunker>>

FailingAdd(chunks, document_id, onDuplicate, point) ==
    /\ \/ Stored(index) + LenOf(chunks) <= MaxStored /\ Stored(metadata) + LenOf(chunks) <= MaxStored
       \/ Stored(index) = 0 /\ Stored(metadata) = 0
    /\ LET out == add_chunks_failing(backend, index, metadata, trackerFile, chunks,
                                     document_id, onDuplicate, point)
       IN  /\ index' = out.index
           /\ metadata' = out.metadata
           /\ trackerFile' = out.tracker
           /\ last' = [NoLast EXCEPT !.op = "add_chunks", !.doc = document_id,
                                     !.n = LenOf(chunks), !.ret = out.ret,
                                     !.raised = out.raised, !.wrote = out.wrote]
    /\ prior' = [tracker |-> trackerFile, point |-> point]
    /\ FailFrame

FailingDelete(document_id, point) ==
    /\ LET out == delete_failing(backend, index, metadata, trackerFile, document_id, point)
       IN  /\ index' = out.index
           /\ metadata' = out.metadata
           /\ trackerFile' = out.tracker
           /\ last' = [NoLast EXCEPT !.op = "delete_by_document_id", !.doc = document_id,
                                     !.ret = out.ret, !.raised = out.raised,
                                     !.wrote = out.wrote]
    /\ prior' = [tracker |-> trackerFile, point |-> point]
    /\ FailFrame

NextFail ==
    \/ \E chunks \in ChunkListsFor(backend), d \in DocArgs, point \in AddPoints(backend),
          dup \in (IF backend = "chroma" THEN ChromaDuplicatePolicies ELSE {"ignore"}) :
            FailingAdd(chunks, d, dup, point)
    \/ \E d \in DocKeys, point \in DeletePoints(backend) : FailingDelete(d, point)
    \/ \E q \in Queries : Search(q, MaxTopK, <<0>>)

SpecFail == Init /\ [][NextFail]_vars

\* C24: a call that raises leaves the tracker as it was; add_chunks changes
\* the tracker only once the backend has written the vectors, and
\* delete_by_document_id only once the document's chunks are removed.
C24_TrackerAfterBackend ==
    /\ last.raised => trackerFile = prior.tracker
    /\ (last.op = "add_chunks" /\ trackerFile # prior.tracker) => last.wrote
    /\ (last.op = "delete_by_document_id" /\ trackerFile # prior.tracker) =>
          Matching(index, last.doc) = {}

(***************************************************************************)
(* Claims about what the backends store and return, under Spec.            *)
(***************************************************************************)
\* C25: every stored chunk carries the document_id it was added under, or
\* "unknown" for an absent or empty one, and the metadata of every result
\* search returns has that document_id field.
C25_ResultsCarryDocumentId ==
    /\ \A e \in BagToSet(index) : e.doc \in DocKeys
    /\ last.op = "search" =>
          \A i \in DOMAIN last.results : last.results[i].document_id \in DocKeys

\* C26: add_chunks of a non-empty chunk list returns the number of chunks
\* and leaves that many more entries in the index, each under an identifier
\* no entry had before, whatever content was indexed earlier.
C26_AddStoresEveryChunk ==
    [][(last'.op = "add_chunks" /\ last'.n > 0) =>
          /\ last'.ret = <<last'.n>>
          /\ Stored(index') = Stored(index) + last'.n
          /\ \A e \in BagToSet(index') :
                e.id # FreshId => (e \in BagToSet(index) <=> e.id \in {x.id : x \in BagToSet(index)})]_vars

\* C27: in a FAISS store the metadata map and the vector index hold the same
\* identifiers after every call, one that raised part-way included, so every
\* search hit has a metadata entry with its content and document_id.
C27_FaissMetadataMatchesIndex ==
    backend = "faiss" =>
        /\ metadata = index
        /\ last.op = "search" =>
              \A i \in DOMAIN last.results : last.results[i].document_id # ABSENT

\* C28: on a backend whose list_documents is the tracker's list, with no
\* call failing, every result search returns belongs to a document that
\* list_documents() reports.
C28_ResultsAreOfListedDocuments ==
    (backend # "pgvector" /\ last.op = "search") =>
        \A i \in DOMAIN last.results :
            last.results[i].document_id # ABSENT => last.results[i].document_id \in Listed

(***************************************************************************)
(* QdrantVectorStore's constructor on a collection that outlives the       *)
(* process.  The store's calls are those of Spec with the Qdrant backend;  *)
(* a restart constructs the store again on the same server.                *)
(***************************************************************************)
\* how client.get_collection can end: it returns the collection, raises
\* because there is none, or raises for another reason (timeout, connection)
QdrantChecks(exists) == IF exists THEN {"found", "error"} ELSE {"not_found", "error"}

\* the points after client.recreate_collection: the collection is deleted
\* if it exists and created empty
recreate_collection(idx) == EmptyBag

\* QdrantVectorStore._ensure_collection
_ensure_collection(idx, exists, check) ==
    IF check = "found" THEN idx ELSE recreate_collection(idx)

QdrantConstruct(check) ==
    /\ backend = "qdrant"
    /\ check \in QdrantChecks(qdrant.exists)
    /\ index' = _ensure_collection(index, qdrant.exists, check)
    /\ qdrant' = [exists |-> TRUE, built |-> TRUE, check |-> check,
                  existed |-> qdrant.exists, kept |-> index' = index]
    /\ last' = NoLast
    /\ UNCHANGED <<backend, metadata, trackerFile, addCompleted, addStored, deletedDocs,
                   procVars, faissVars, loop, chain, factory, tracker, embed, prior, chunker>>

InitQdrant == Init /\ backend = "qdrant"

NextQdrant ==
    \/ \E check \in {"found", "not_found", "error"} : QdrantConstruct(check)
    \/ qdrant.built /\ \E chunks \in ChunkLists, d \in DocArgs : AddChunks(chunks, d, "ignore")
    \/ qdrant.built /\ \E d \in DocKeys : DeleteByDocumentId(d)
    \/ qdrant.built /\ \E q \in Queries, k \in 1..MaxTopK : Search(q, k, <<>>)

SpecQdrant == InitQdrant /\ [][NextQdrant]_vars

\* C29: a constructor run that finds the collection on the server leaves
\* its points as they were, however the existence check ended.
C29_ConstructorKeepsPoints == qdrant.existed => qdrant.kept

(***************************************************************************)
(* TextChunker._chunk_text, one loop iteration per step.                   *)
(***************************************************************************)
MaxText == 3
MaxChunkSize == 2

Chars == {"a", " "}
Texts == UNION {[1..n -> Chars] : n \in 0..MaxText}
\* CHUNK_SIZE and CHUNK_OVERLAP are int(os.getenv(...)): any two integers
ChunkSizes == 0..MaxChunkSize
ChunkOverlaps == 0..(MaxChunkSize + 1)
\* the chunks memory has room for: more than any text of MaxText characters
\* has characters
MaxReturned == MaxText + 1

\* the position a slice bound i denotes in a string of n characters
SliceBound(i, n) ==
    IF i < 0 THEN (IF n + i < 0 THEN 0 ELSE n + i) ELSE (IF i > n THEN n ELSE i)

\* text[start:end]
Slice(text, start, end) ==
    LET lo == SliceBound(start, Len(text))
        hi == SliceBound(end, Len(text))
    IN  IF lo >= hi THEN <<>> ELSE SubSeq(text, lo + 1, hi)

ChunkFrame ==
    UNCHANGED <<storeVars, procVars, faissVars, loop, chain, factory, tracker,
                embed, prior, qdrant>>

\* if not text or not text.strip(): return []; chunks = []; start = 0
ChunkEnter ==
    /\ chunker.pc = "call"
    /\ chunker' = IF Strip(chunker.text) = <<>>
                  THEN [chunker EXCEPT !.pc = "returned"]
                  ELSE [chunker EXCEPT !.pc = "loop"]
    /\ ChunkFrame

\* one iteration of while start < text_len; the guards on start and on the
\* chunks kept bound the runs that never leave the loop
ChunkIterate ==
    /\ chunker.pc = "loop"
    /\ chunker.start < Len(chunker.text)
    /\ chunker.start >= 0 - MaxText
    /\ LET end == chunker.start + chunker.chunk_size
           chunk_content == Slice(chunker.text, chunker.start, end)
       IN  chunker' =
             IF Strip(chunk_content) = <<>>
             THEN [chunker EXCEPT !.start = end - chunker.chunk_overlap]
             ELSE IF Len(chunker.chunks) >= MaxReturned
             THEN [chunker EXCEPT !.pc = "MemoryError"]
             ELSE [chunker EXCEPT !.chunks = Append(@, Strip(chunk_content)),
                                  !.start = end - chunker.chunk_overlap]
    /\ ChunkFrame

\* the loop test fails: return chunks
ChunkReturn ==
    /\ chunker.pc = "loop"
    /\ chunker.start >= Len(chunker.text)
    /\ chunker' = [chunker EXCEPT !.pc = "returned"]
    /\ ChunkFrame

InitChunk ==
    /\ StoreInit /\ ProcsOff /\ FaissOff
    /\ loop = 0 /\ chain = NoChain /\ FactoryOff /\ TrackerOff
    /\ embed = NoEmbed /\ prior = NoPrior /\ qdrant = NoQdrant
    /\ chunker \in {[NoChunker EXCEPT !.text = t, !.chunk_size = cs, !.chunk_overlap = co,
                                      !.pc = "call"] :
                        t \in Texts, cs \in ChunkSizes, co \in ChunkOverlaps}

NextChunk == ChunkEnter \/ ChunkIterate \/ ChunkReturn

\* a running call keeps running: the interpreter executes the next iteration
SpecChunk == InitChunk /\ [][NextChunk]_vars /\ WF_vars(NextChunk)

\* every chunk collected so far has non-empty content of at most chunk_size
\* characters
ChunksWellFormed ==
    \A i \in DOMAIN chunker.chunks :
        /\ chunker.chunks[i] # <<>>
        /\ Len(chunker.chunks[i]) <= chunker.chunk_size

\* C30: every call of _chunk_text returns, whatever the text, chunk_size and
\* chunk_overlap.
C30_ChunkTextReturns == <>(chunker.pc = "returned")

====
